---- MODULE Spec2Model ----
(***************************************************************************)
(* A model of websum.py: the crawl loop crawl_docs, the retrying fetch     *)
(* safe_crawl, RateLimiter and URLCache, and the text functions            *)
(* clean_markdown, format_code_block, process_markdown_content,            *)
(* extract_page_links and modules/utils.py's clean_text.  Each part has    *)
(* its own specification; the variables of the other parts rest at a fixed *)
(* value while one part runs.                                              *)
(***************************************************************************)
EXTENDS Integers, Sequences, FiniteSets, TLC

VARIABLES
    \* crawl_docs(urls, output_dir, page_limit, ...)
    urls,          \* the argument urls, a list
    page_limit,    \* the argument page_limit: <<>> is None, <<n>> is n
    pc,            \* position in crawl_docs
    idx,           \* position of the for loop in urls (1-based)
    result,        \* the CrawlResult of the current iteration (its success flag)
    fetchLog,      \* history: the fetches started, [url, t], in order
    outcomes,      \* history: what each iteration ended with
    pbar_n,        \* tqdm's counter, raised by pbar.update(1)
    now,           \* wall-clock time, in seconds
    \* RateLimiter and the tasks calling wait()
    delay,         \* self.delay
    last_request,  \* self.last_request
    clock,         \* time.time(), in seconds
    tasks,         \* the tasks that call wait()
    wpc,           \* per task: "idle", or "sleeping" in asyncio.sleep
    wake,          \* per task: the time its asyncio.sleep is due
    firstCall,     \* history: the time the first wait() was called (<<>> before)
    returns,       \* history: [task, t, slept] of every wait() that returned, in order
    \* safe_crawl(url)
    rurl,          \* the argument url
    attempt,       \* the loop variable of `for attempt in range(retries)`
    rpc,           \* position in safe_crawl
    sleepLeft,     \* seconds left of the current asyncio.sleep
    attemptLog,    \* history: the outcome of every crawler.arun, in order
    sleepLog,      \* history: [attempt, secs] of every backoff sleep, in order
    ret,           \* what safe_crawl returned, once rpc = "returned"
    \* URLCache(cache_file, enabled)
    enabled,       \* self.enabled
    cache,         \* self.cache, the value json.load gave or the dict kept since
    file,          \* the content of cache_file
    file0,         \* history: the content of cache_file before construction
    raised,        \* the exception a call let escape, "none" so far
    nops,          \* the number of calls made so far
    lastOp,        \* history: the last call, [name, url, other]
    pre,           \* history: self.cache before the last call
    out,           \* history: what the last call returned, [b, n, visits]
    wellFormed,    \* history: the cache started empty or from a well-formed file
                   \* and every file merged since was well-formed
    inserted,      \* history: the URLs passed to add_url or held by a merged file
    \* two cache files merged into each other
    fileA,         \* the content of one cache file
    fileB,         \* the content of the other
    cacheAB,       \* self.cache of URLCache(A) after merge(B)
    cacheBA,       \* self.cache of URLCache(B) after merge(A)
    \* clean_markdown(markdown)
    md,            \* the argument markdown: [isNone, s]
    cleaned,       \* clean_markdown(md), once computed: [done, s]
    recleaned,     \* clean_markdown(clean_markdown(md)), once computed: [done, s]
    \* format_code_block(code)
    codeArg,       \* the argument code
    formatted,     \* format_code_block(code), once computed: [done, s]
    \* process_markdown_content(markdown)
    pmd,           \* the argument markdown: [isNone, s]
    processed,     \* process_markdown_content(pmd), once computed: [done, s]
    \* modules/utils.py: clean_text(text)
    textArg,       \* the argument text
    cleanedText,   \* clean_text(textArg), once computed: [done, s]
    recleanedText, \* clean_text(clean_text(textArg)), once computed: [done, s]
    \* extract_page_links(html_content, base_url)
    hrefs,         \* the href values of the <a href> elements of html_content
    baseUrl,       \* the argument base_url
    links,         \* the list returned, once computed: [done, s]
    linksAgain,    \* the list a second call returned, once computed: [done, s]
    \* process_markdown(result)
    mresult,       \* the argument result: <<>> is None, <<r>> a CrawlResult
    mout,          \* what the call ended with: [kind, exc, msg, s]
    \* save_to_knowledge_base(result, kb_root, format)
    kb,            \* the files of kb_root: name -> [owner, content]
    kbPre,         \* history: kb before the last call
    saveArg,       \* history: the arguments of the last call
    saveOut,       \* what the last call ended with: [kind, exc, msg, s]
    nsaves,        \* the number of calls made so far
    \* CrawlProgress(page_limit)
    cpLimit,       \* self.page_limit: <<>> is None, <<n>> is n
    pages_processed, \* self.pages_processed
    updates,       \* history: the number of update() calls
    cpOut          \* history: the last query and what it returned

crawlVars == <<urls, page_limit, pc, idx, result, fetchLog, outcomes, pbar_n, now>>
limiterVars == <<delay, last_request, clock, tasks, wpc, wake, firstCall, returns>>
retryVars == <<rurl, attempt, rpc, sleepLeft, attemptLog, sleepLog, ret>>
cacheVars == <<enabled, cache, file, file0, raised, nops, lastOp, pre, out, wellFormed,
               inserted>>
mergeVars == <<fileA, fileB, cacheAB, cacheBA>>

cleanVars == <<md, cleaned, recleaned>>
formatVars == <<codeArg, formatted>>
processVars == <<pmd, processed>>
textVars == <<textArg, cleanedText, recleanedText>>
linkVars == <<hrefs, baseUrl, links, linksAgain>>
resultVars == <<mresult, mout>>
saveVars == <<kb, kbPre, saveArg, saveOut, nsaves>>
progressVars == <<cpLimit, pages_processed, updates, cpOut>>
pageVars == <<resultVars, saveVars, progressVars>>
textFnVars == <<cleanVars, formatVars, processVars, textVars, linkVars>>
pureVars == <<textFnVars, pageVars>>
orchestrationVars == <<crawlVars, limiterVars, retryVars, cacheVars, mergeVars>>

vars == <<crawlVars, limiterVars, retryVars, cacheVars, mergeVars, pureVars>>

(***************************************************************************)
(* Bounds                                                                  *)
(***************************************************************************)
MaxUrls == 3      \* longest urls argument
MaxLimit == 2     \* largest page_limit argument
MaxTime == 2      \* the clock stops ticking here
MaxDelay == 2     \* largest delay_seconds of a RateLimiter
MaxCalls == 3     \* wait() calls in one run
MaxElapsed == 5   \* seconds the limiter's run lasts at most
MaxFileCount == 2 \* largest count of an entry of a cache file
MaxOps == 2       \* calls made on one URLCache

Urls == {"a", "b"}

RECURSIVE SeqsUpTo(_, _)
SeqsUpTo(S, n) ==
    IF n = 0 THEN {<<>>}
    ELSE LET shorter == SeqsUpTo(S, n - 1)
         IN  shorter \cup {Append(s, x) : s \in {t \in shorter : Len(t) = n - 1}, x \in S}

None == <<>>
Some(n) == <<n>>

(***************************************************************************)
(* crawl_docs                                                              *)
(***************************************************************************)
\* RateLimiter.__init__(delay_seconds=1.0): the delay a limiter has by default
DefaultDelay == 1

\* What the fetch collaborator can do: a successful result, an unsuccessful
\* result, or an exception
FetchOutcomes == {"success", "unsuccessful", "exception"}

\* crawl_page(url, ...): every exception is caught inside it and turned into a
\* result with success False; only a successful page_result gives success True
crawl_page(outcome) ==
    IF outcome = "success" THEN [success |-> TRUE] ELSE [success |-> FALSE]

\* save_to_knowledge_base(result, output_dir, format): it returns the path, or
\* raises StorageError when anything inside its try block raised
SaveOutcomes == {"ok", "StorageError"}

\* a handler that lets the exception leave the loop
OnPageExceptionReraise(e) == "raised"

\* the handler of the loop body: `except Exception` logs and continues with the
\* next URL
OnPageException(e) == "loop"

\* crawl_docs is not running
CrawlIdle ==
    /\ urls = <<>>
    /\ page_limit = None
    /\ pc = "idle"
    /\ idx = 1
    /\ result = [success |-> FALSE]
    /\ fetchLog = <<>>
    /\ outcomes = <<>>
    /\ pbar_n = 0
    /\ now = 0

CrawlInit ==
    /\ urls \in SeqsUpTo(Urls, MaxUrls)
    /\ page_limit \in {None} \cup {Some(n) : n \in 0..MaxLimit}
    /\ pc = "start"
    /\ idx = 1
    /\ result = [success |-> FALSE]
    /\ fetchLog = <<>>
    /\ outcomes = <<>>
    /\ pbar_n = 0
    /\ now = 0

\* os.makedirs(output_dir) and the media directory: a failure here reaches the
\* outer handler, which logs and re-raises
Setup ==
    /\ pc = "start"
    /\ \E ok \in BOOLEAN : pc' = IF ok THEN "loop" ELSE "raised"
    /\ UNCHANGED <<urls, page_limit, idx, result, fetchLog, outcomes, pbar_n, now>>
    /\ UNCHANGED <<limiterVars, retryVars, cacheVars, mergeVars, pureVars>>

\* for url in urls: ... result = await crawl_page(url, crawler_config, media_dir)
CrawlPage ==
    /\ pc = "loop"
    /\ idx <= Len(urls)
    /\ UNCHANGED <<limiterVars, retryVars, cacheVars, mergeVars, pureVars>>
    /\ \E o \in FetchOutcomes :
         /\ fetchLog' = Append(fetchLog, [url |-> urls[idx], t |-> now, o |-> o])
         /\ result' = crawl_page(o)
         /\ IF result'.success
            THEN /\ pc' = "save"
                 /\ UNCHANGED <<idx, outcomes, pbar_n>>
            ELSE \* logger.error("Failed to process ..."), then pbar.update(1)
                 /\ pc' = "loop"
                 /\ idx' = idx + 1
                 /\ outcomes' = Append(outcomes, "failed")
                 /\ pbar_n' = pbar_n + 1
    /\ UNCHANGED <<urls, page_limit, now>>

\* if result.success: await save_to_knowledge_base(result, output_dir, format)
SavePage ==
    /\ pc = "save"
    /\ \E s \in SaveOutcomes :
         IF s = "ok"
         THEN /\ pc' = "loop"
              /\ outcomes' = Append(outcomes, "saved")
              /\ pbar_n' = pbar_n + 1
         ELSE \* except Exception as e: ... continue (pbar.update is skipped)
              /\ pc' = OnPageException(s)
              /\ outcomes' = Append(outcomes, s)
              /\ UNCHANGED pbar_n
    /\ idx' = idx + 1
    /\ UNCHANGED <<urls, page_limit, result, fetchLog, now>>
    /\ UNCHANGED <<limiterVars, retryVars, cacheVars, mergeVars, pureVars>>

\* the list is exhausted: pbar.clear() and crawl_docs returns
Finish ==
    /\ pc = "loop"
    /\ idx > Len(urls)
    /\ pc' = "done"
    /\ UNCHANGED <<urls, page_limit, idx, result, fetchLog, outcomes, pbar_n, now>>
    /\ UNCHANGED <<limiterVars, retryVars, cacheVars, mergeVars, pureVars>>

\* time passes while crawl_docs runs
Tick ==
    /\ pc \in {"loop", "save"}
    /\ now < MaxTime
    /\ now' = now + 1
    /\ UNCHANGED <<urls, page_limit, pc, idx, result, fetchLog, outcomes, pbar_n>>
    /\ UNCHANGED <<limiterVars, retryVars, cacheVars, mergeVars, pureVars>>

CrawlNext == Setup \/ CrawlPage \/ SavePage \/ Finish \/ Tick

(***************************************************************************)
(* RateLimiter                                                             *)
(***************************************************************************)
\* time.time() counts seconds since 1970: it is beyond any delay_seconds
StartClock == MaxDelay + 1
MaxClock == StartClock + MaxElapsed

\* a sleep of the time already elapsed instead of the time still missing
SleepForElapsed(d, elapsed) == elapsed

\* asyncio.sleep(self.delay - elapsed)
SleepFor(d, elapsed) == d - elapsed

\* no wait() is running and no limiter is in use
LimiterIdle ==
    /\ delay = 0
    /\ last_request = 0
    /\ clock = 0
    /\ tasks = {}
    /\ wpc = <<>>
    /\ wake = <<>>
    /\ firstCall = <<>>
    /\ returns = <<>>

\* RateLimiter(delay_seconds): self.delay = delay_seconds, self.last_request = 0
LimiterInit(T) ==
    /\ delay \in 0..MaxDelay
    /\ last_request = 0
    /\ clock = StartClock
    /\ tasks = T
    /\ wpc = [t \in T |-> "idle"]
    /\ wake = [t \in T |-> 0]
    /\ firstCall = <<>>
    /\ returns = <<>>

\* wait(), up to its suspension point: now = time.time(); elapsed = now -
\* self.last_request; without a sleep, self.last_request = time.time() and return
WaitCall(t) ==
    /\ wpc[t] = "idle"
    /\ Len(returns) + Cardinality({u \in tasks : wpc[u] = "sleeping"}) < MaxCalls
    /\ firstCall' = IF firstCall = <<>> THEN <<clock>> ELSE firstCall
    /\ LET elapsed == clock - last_request
       IN  IF elapsed < delay
           THEN /\ wpc' = [wpc EXCEPT ![t] = "sleeping"]
                /\ wake' = [wake EXCEPT ![t] = clock + SleepFor(delay, elapsed)]
                /\ UNCHANGED <<last_request, returns>>
           ELSE /\ last_request' = clock
                /\ returns' = Append(returns, [task |-> t, t |-> clock, slept |-> FALSE])
                /\ UNCHANGED <<wpc, wake>>
    /\ UNCHANGED <<delay, clock, tasks>>
    /\ UNCHANGED <<crawlVars, retryVars, cacheVars, mergeVars, pureVars>>

\* asyncio.sleep is over (it never returns early, it may return late):
\* self.last_request = time.time() and wait() returns
WaitWake(t) ==
    /\ wpc[t] = "sleeping"
    /\ clock >= wake[t]
    /\ last_request' = clock
    /\ returns' = Append(returns, [task |-> t, t |-> clock, slept |-> TRUE])
    /\ wpc' = [wpc EXCEPT ![t] = "idle"]
    /\ UNCHANGED <<delay, clock, tasks, wake, firstCall>>
    /\ UNCHANGED <<crawlVars, retryVars, cacheVars, mergeVars, pureVars>>

\* time passes
ClockTick ==
    /\ tasks # {}
    /\ clock < MaxClock
    /\ clock' = clock + 1
    /\ UNCHANGED <<delay, last_request, tasks, wpc, wake, firstCall, returns>>
    /\ UNCHANGED <<crawlVars, retryVars, cacheVars, mergeVars, pureVars>>

LimiterNext == (\E t \in tasks : WaitCall(t)) \/ (\E t \in tasks : WaitWake(t)) \/ ClockTick

(***************************************************************************)
(* safe_crawl                                                              *)
(***************************************************************************)
\* retries = 3
Retries == 3

RECURSIVE Pow2(_)
Pow2(n) == IF n = 0 THEN 1 ELSE 2 * Pow2(n - 1)

\* await asyncio.sleep(2 ** attempt)
Backoff(a) == Pow2(a)

\* a loop that runs one iteration too many
HasNextAttemptOffByOne(a) == a + 1 <= Retries

\* for attempt in range(retries): is there another iteration after this one
HasNextAttempt(a) == a + 1 < Retries

\* safe_crawl is not running
RetryIdle ==
    /\ rurl = ""
    /\ attempt = 0
    /\ rpc = "idle"
    /\ sleepLeft = 0
    /\ attemptLog = <<>>
    /\ sleepLog = <<>>
    /\ ret = "pending"

RetryInit ==
    /\ rurl \in Urls
    /\ attempt = 0
    /\ rpc = "try"
    /\ sleepLeft = 0
    /\ attemptLog = <<>>
    /\ sleepLog = <<>>
    /\ ret = "pending"

\* the end of one iteration of the for loop: the next attempt, or `return None`
NextIteration ==
    IF HasNextAttempt(attempt)
    THEN /\ attempt' = attempt + 1
         /\ rpc' = "try"
         /\ UNCHANGED ret
    ELSE /\ rpc' = "returned"
         /\ ret' = "None"
         /\ UNCHANGED attempt

\* result = await crawler.arun(url=url, config=CRAWLER_CONFIG)
Attempt ==
    /\ rpc = "try"
    /\ \E o \in FetchOutcomes :
         /\ attemptLog' = Append(attemptLog, o)
         /\ CASE o = "success" ->
                   \* return result
                   /\ rpc' = "returned"
                   /\ ret' = "result"
                   /\ UNCHANGED <<attempt, sleepLeft, sleepLog>>
              [] o = "unsuccessful" ->
                   \* logger.warning(...): the loop goes on at once
                   /\ NextIteration
                   /\ UNCHANGED <<sleepLeft, sleepLog>>
              [] o = "exception" ->
                   \* except Exception: logger.error(...); await asyncio.sleep(2 ** attempt)
                   /\ rpc' = "backoff"
                   /\ sleepLeft' = Backoff(attempt)
                   /\ sleepLog' = Append(sleepLog, [attempt |-> attempt, secs |-> Backoff(attempt)])
                   /\ UNCHANGED <<attempt, ret>>
    /\ UNCHANGED rurl
    /\ UNCHANGED <<crawlVars, limiterVars, cacheVars, mergeVars, pureVars>>

\* one second of the backoff sleep passes
BackoffTick ==
    /\ rpc = "backoff"
    /\ sleepLeft > 0
    /\ sleepLeft' = sleepLeft - 1
    /\ UNCHANGED <<rurl, attempt, rpc, attemptLog, sleepLog, ret>>
    /\ UNCHANGED <<crawlVars, limiterVars, cacheVars, mergeVars, pureVars>>

\* the backoff sleep is over
BackoffDone ==
    /\ rpc = "backoff"
    /\ sleepLeft = 0
    /\ NextIteration
    /\ UNCHANGED <<rurl, sleepLeft, attemptLog, sleepLog>>
    /\ UNCHANGED <<crawlVars, limiterVars, cacheVars, mergeVars, pureVars>>

RetryNext == Attempt \/ BackoffTick \/ BackoffDone

(***************************************************************************)
(* URLCache                                                                *)
(***************************************************************************)
\* The values a URL can have in a JSON object: no key ("absent"), an entry
\* {'timestamp': ts, 'count': n}, a dict without 'count', or a value that is
\* no dict (a number, say).
Absent == [kind |-> "absent", count |-> 0, ts |-> 0]
Entry(n, ts) == [kind |-> "entry", count |-> n, ts |-> ts]
NoCount == [kind |-> "nocount", count |-> 0, ts |-> 0]
Scalar == [kind |-> "scalar", count |-> 0, ts |-> 0]

EmptyMap == [u \in Urls |-> Absent]
Keys(m) == {u \in Urls : m[u].kind # "absent"}

\* The contents a cache file can have: no file, text that is no JSON (garbage,
\* or JSON cut short by a partial write), JSON that is no object, or an object.
NoObject(k) == [kind |-> k, map |-> EmptyMap]
Object(m) == [kind |-> "object", map |-> m]

\* the values json.load returns, and the dict of a cache
Dict(m) == [kind |-> "dict", map |-> m]
Unset == [kind |-> "unset", map |-> EmptyMap]

WellFormedEntries(ts) == {Absent} \cup {Entry(n, ts) : n \in 1..MaxFileCount}
WellFormedFiles(ts) == {Object(m) : m \in [Urls -> WellFormedEntries(ts)]}
IsWellFormed(f) ==
    /\ f.kind = "object"
    /\ \A u \in Urls : f.map[u].kind \in {"absent", "entry"} /\
                       (f.map[u].kind = "entry" => f.map[u].count >= 1)

MalformedKinds == {"missing", "garbage", "truncated", "array", "number"}
FileContents ==
    {NoObject(k) : k \in MalformedKinds}
    \cup {Object(m) : m \in [Urls -> WellFormedEntries(0) \cup {NoCount, Scalar}]}

\* _load_cache: open() and json.load(f); FileNotFoundError and JSONDecodeError
\* give {}, anything json.load parsed is returned as it is
_load_cache(f) ==
    CASE f.kind \in {"missing", "garbage", "truncated"} -> Dict(EmptyMap)
      [] f.kind = "object" -> Dict(f.map)
      [] OTHER -> [kind |-> f.kind, map |-> EmptyMap]

\* _save_cache: json.dump(self.cache, f) when enabled
_save_cache(e, c, f) ==
    IF e THEN (IF c.kind = "dict" THEN Object(c.map) ELSE NoObject(c.kind)) ELSE f

\* an entry written with a count of 1 whatever was there
NextCountReset(v) == 1

\* self.cache.get(url, {}).get('count', 0) + 1
NextCount(v) == (IF v.kind = "entry" THEN v.count ELSE 0) + 1

\* add_url(url), enabled: the cache after it and the exception it raises
add_url(c, u, ts) ==
    IF c.kind # "dict"
    THEN [cache |-> c, err |-> "AttributeError"]       \* no .get on a list or an int
    ELSE IF c.map[u].kind = "scalar"
    THEN [cache |-> c, err |-> "AttributeError"]       \* no .get on the value
    ELSE [cache |-> Dict([c.map EXCEPT ![u] = Entry(NextCount(c.map[u]), ts)]),
          err |-> "none"]

\* a has_url that tests the flag the wrong way round
has_urlFlagInverted(e, c, u) ==
    IF e THEN [b |-> FALSE, err |-> "none"]
    ELSE [b |-> c.kind = "dict" /\ c.map[u].kind # "absent", err |-> "none"]

\* has_url(url): url in self.cache if self.enabled else False
has_url(e, c, u) ==
    IF ~e THEN [b |-> FALSE, err |-> "none"]
    ELSE CASE c.kind = "dict" -> [b |-> c.map[u].kind # "absent", err |-> "none"]
           [] c.kind = "array" -> [b |-> FALSE, err |-> "none"]
           [] OTHER -> [b |-> FALSE, err |-> "TypeError"]   \* `in` on an int

RECURSIVE SumCounts(_, _)
SumCounts(m, S) ==
    IF S = {} THEN 0
    ELSE LET u == CHOOSE x \in S : TRUE
         IN  (IF m[u].kind = "entry" THEN m[u].count ELSE 0) + SumCounts(m, S \ {u})

\* get_stats(): a cache that is no dict is reset to {}; a value without .get
\* raises
get_stats(c) ==
    LET d == IF c.kind = "dict" THEN c ELSE Dict(EmptyMap)
    IN  IF \E u \in Keys(d.map) : d.map[u].kind = "scalar"
        THEN [cache |-> d, n |-> 0, visits |-> 0, err |-> "AttributeError"]
        ELSE [cache |-> d, n |-> Cardinality(Keys(d.map)),
              visits |-> SumCounts(d.map, Keys(d.map)), err |-> "none"]

\* a merge that replaces the count of a URL present on both sides
MergedCountOverwrite(mine, data) ==
    IF data.kind = "entry" THEN data.count ELSE 1

\* self.cache[url]['count'] += data.get('count', 1)
MergedCount(mine, data) ==
    mine.count + (IF data.kind = "entry" THEN data.count ELSE 1)

\* one iteration of `for url, data in other_cache.items()`
MergeEntry(st, u, data) ==
    LET c == st.cache
    IN  CASE c.kind = "number" -> [st EXCEPT !.err = "TypeError"]  \* `in` on an int
          [] c.kind = "array" -> [st EXCEPT !.err = "TypeError"]   \* list[str] = data
          [] c.map[u].kind = "absent" ->
               [st EXCEPT !.cache = Dict([c.map EXCEPT ![u] = data])]
          [] c.map[u].kind = "scalar" -> [st EXCEPT !.err = "TypeError"]
          [] c.map[u].kind = "nocount" -> [st EXCEPT !.err = "KeyError"]
          [] data.kind = "scalar" -> [st EXCEPT !.err = "AttributeError"]
          [] OTHER ->
               [st EXCEPT !.cache = Dict([c.map EXCEPT
                                   ![u] = Entry(MergedCount(c.map[u], data), c.map[u].ts)])]

RECURSIVE MergeLoop(_, _, _)
MergeLoop(st, other, order) ==
    IF order = <<>> \/ st.err # "none" THEN st
    ELSE MergeLoop(MergeEntry(st, Head(order), other[Head(order)]), other, Tail(order))

\* the orders in which a JSON object can list the keys S
Orders(S) ==
    {o \in SeqsUpTo(S, Cardinality(S)) :
        Len(o) = Cardinality(S) /\ {o[i] : i \in 1..Len(o)} = S}

\* merge(other_cache_file) up to _save_cache: the cache after it, the exception
\* it raises, whether it reached _save_cache, and what it returns
merge(c, f, order) ==
    CASE f.kind \in {"missing", "garbage", "truncated"} ->
           [cache |-> c, err |-> "none", saved |-> FALSE, n |-> 0]
      [] f.kind \in {"array", "number"} ->             \* no .items()
           [cache |-> c, err |-> "AttributeError", saved |-> FALSE, n |-> 0]
      [] OTHER ->
           LET st == MergeLoop([cache |-> c, err |-> "none"], f.map, order)
           IN  [cache |-> st.cache, err |-> st.err, saved |-> st.err = "none",
                n |-> Cardinality(Keys(f.map))]

NoOp == [name |-> "init", url |-> "", other |-> NoObject("missing")]
NoOut == [b |-> FALSE, n |-> 0, visits |-> 0]

\* no URLCache is in use
CacheIdle ==
    /\ enabled = FALSE
    /\ cache = Unset
    /\ file = NoObject("missing")
    /\ file0 = NoObject("missing")
    /\ raised = "none"
    /\ nops = 0
    /\ lastOp = NoOp
    /\ pre = Unset
    /\ out = NoOut
    /\ wellFormed = FALSE
    /\ inserted = {}

\* URLCache(cache_file, enabled): self.cache = self._load_cache()
CacheInit ==
    /\ enabled \in BOOLEAN
    /\ file0 \in FileContents
    /\ file = file0
    /\ cache = _load_cache(file0)
    /\ raised = "none"
    /\ nops = 0
    /\ lastOp = NoOp
    /\ pre = cache
    /\ out = NoOut
    /\ wellFormed = (file0.kind \in {"missing", "garbage", "truncated"} \/ IsWellFormed(file0))
    /\ inserted = {}

CanCall == cache # Unset /\ raised = "none" /\ nops < MaxOps

\* cache.add_url(url); the timestamp is the time of the call
AddUrl(u) ==
    /\ CanCall
    /\ nops' = nops + 1
    /\ lastOp' = [name |-> "add_url", url |-> u, other |-> NoObject("missing")]
    /\ pre' = cache
    /\ out' = NoOut
    /\ IF enabled
       THEN LET r == add_url(cache, u, nops + 1)
            IN  /\ cache' = r.cache
                /\ raised' = r.err
                /\ file' = IF r.err = "none" THEN _save_cache(enabled, r.cache, file) ELSE file
       ELSE UNCHANGED <<cache, raised, file>>
    /\ inserted' = inserted \cup {u}
    /\ UNCHANGED <<enabled, file0, wellFormed>>
    /\ UNCHANGED <<crawlVars, limiterVars, retryVars, mergeVars, pureVars>>

\* cache.has_url(url)
HasUrl(u) ==
    /\ CanCall
    /\ nops' = nops + 1
    /\ lastOp' = [name |-> "has_url", url |-> u, other |-> NoObject("missing")]
    /\ pre' = cache
    /\ LET r == has_url(enabled, cache, u)
       IN  /\ out' = [NoOut EXCEPT !.b = r.b]
           /\ raised' = r.err
    /\ UNCHANGED <<enabled, cache, file, file0, wellFormed, inserted>>
    /\ UNCHANGED <<crawlVars, limiterVars, retryVars, mergeVars, pureVars>>

\* cache.get_stats()
GetStats ==
    /\ CanCall
    /\ nops' = nops + 1
    /\ lastOp' = [name |-> "get_stats", url |-> "", other |-> NoObject("missing")]
    /\ pre' = cache
    /\ LET r == get_stats(cache)
       IN  /\ cache' = r.cache
           /\ out' = [NoOut EXCEPT !.n = r.n, !.visits = r.visits]
           /\ raised' = r.err
    /\ UNCHANGED <<enabled, file, file0, wellFormed, inserted>>
    /\ UNCHANGED <<crawlVars, limiterVars, retryVars, mergeVars, pureVars>>

\* cache.merge(other_cache_file)
Merge(f) ==
    /\ CanCall
    /\ nops' = nops + 1
    /\ lastOp' = [name |-> "merge", url |-> "", other |-> f]
    /\ pre' = cache
    /\ \E order \in Orders(Keys(f.map)) :
         LET r == merge(cache, f, order)
         IN  /\ cache' = r.cache
             /\ raised' = r.err
             /\ out' = [NoOut EXCEPT !.n = r.n]
             /\ file' = IF r.saved THEN _save_cache(enabled, r.cache, file) ELSE file
    /\ wellFormed' = (wellFormed /\ IsWellFormed(f))
    /\ inserted' = inserted \cup Keys(f.map)
    /\ UNCHANGED <<enabled, file0>>
    /\ UNCHANGED <<crawlVars, limiterVars, retryVars, mergeVars, pureVars>>

CacheNext ==
    \/ \E u \in Urls : AddUrl(u)
    \/ \E u \in Urls : HasUrl(u)
    \/ GetStats
    \/ \E f \in FileContents : Merge(f)

(***************************************************************************)
(* Two caches merged into each other                                       *)
(***************************************************************************)
\* no merge of two files is under way
MergeIdle ==
    /\ fileA = NoObject("missing")
    /\ fileB = NoObject("missing")
    /\ cacheAB = Unset
    /\ cacheBA = Unset

\* two well-formed cache files, written at different times
MergeInit ==
    /\ fileA \in WellFormedFiles(0)
    /\ fileB \in WellFormedFiles(1)
    /\ cacheAB = Unset
    /\ cacheBA = Unset

\* URLCache(A).merge(B)
MergeBIntoA ==
    /\ fileA.kind = "object"
    /\ cacheAB = Unset
    /\ \E order \in Orders(Keys(fileB.map)) :
         cacheAB' = merge(_load_cache(fileA), fileB, order).cache
    /\ UNCHANGED <<fileA, fileB, cacheBA>>
    /\ UNCHANGED <<crawlVars, limiterVars, retryVars, cacheVars, pureVars>>

\* URLCache(a copy of B).merge(a copy of A)
MergeAIntoB ==
    /\ fileB.kind = "object"
    /\ cacheBA = Unset
    /\ \E order \in Orders(Keys(fileA.map)) :
         cacheBA' = merge(_load_cache(fileB), fileA, order).cache
    /\ UNCHANGED <<fileA, fileB, cacheAB>>
    /\ UNCHANGED <<crawlVars, limiterVars, retryVars, cacheVars, pureVars>>

MergeNext == MergeBIntoA \/ MergeAIntoB

(***************************************************************************)
(* Text.  A str is a sequence of symbols; a symbol is one character, or    *)
(* one run of characters the functions below never look inside (a fence of *)
(* three backquotes, a Python keyword).                                    *)
(***************************************************************************)
NL == "NL"          \* '\n'
CR == "CR"          \* '\r'
TAB == "TAB"        \* '\t'
SP == " "
FENCE == "FENCE"    \* three backquotes
QUOTE == "QUOTE"    \* a quotation mark
PYTHON == "python"
Whitespace == {SP, TAB, NL, CR}
Keywords == {"import", "from", "def", "class", "async"}
Alphabet == Whitespace \cup Keywords \cup
            {FENCE, PYTHON, "#", "-", "*", "+", "1", ".", "a", "b", ":", ";", QUOTE}
NotNL == Alphabet \ {NL}
Word == Keywords \cup {PYTHON, "1", "a", "b"}     \* \w
Digit == {"1"}                                    \* \d

\* a regular expression is a sequence of nodes: a character class repeated
\* min..max times (max = -1: no upper limit), greedy or lazy, or the anchor $
\* of re.MULTILINE
Rep(set, min, max, lazy) ==
    [at |-> "chars", set |-> set, min |-> min, max |-> max, lazy |-> lazy]
Eol == [at |-> "eol", set |-> {}, min |-> 0, max |-> 0, lazy |-> FALSE]
One(set) == Rep(set, 1, 1, FALSE)
Plus(set) == Rep(set, 1, -1, FALSE)
Star(set) == Rep(set, 0, -1, FALSE)

\* the length of the run of characters of `set` that starts at s[i], max at most
RECURSIVE Run(_, _, _, _)
Run(s, i, set, max) ==
    IF i > Len(s) \/ max = 0 THEN 0
    ELSE IF s[i] \notin set THEN 0
    ELSE 1 + Run(s, i + 1, set, max - 1)

\* re.match at position i with backtracking: the position after the match,
\* 0 when there is none
RECURSIVE Match(_, _, _), TryCounts(_, _, _, _, _, _)
TryCounts(rest, s, i, k, last, step) ==
    LET r == Match(rest, s, i + k) IN
    IF r # 0 THEN r
    ELSE IF k = last THEN 0
    ELSE TryCounts(rest, s, i, k + step, last, step)

Match(re, s, i) ==
    IF re = <<>> THEN i
    ELSE LET n == Head(re)
             run == Run(s, i, n.set, n.max)
         IN IF n.at = "eol"
            THEN IF i = Len(s) + 1 \/ s[i] = NL THEN Match(Tail(re), s, i) ELSE 0
            ELSE IF run < n.min THEN 0
            ELSE IF n.lazy THEN TryCounts(Tail(re), s, i, n.min, run, 1)
            ELSE TryCounts(Tail(re), s, i, run, n.min, -1)

\* re.search(re, s) finds a match
Search(re, s) == \E i \in 1..Len(s) : Match(re, s, i) # 0

\* the leftmost non-overlapping matches from position p on, as <<first, last>>
RECURSIVE Spans(_, _, _)
Spans(re, s, p) ==
    IF p > Len(s) THEN <<>>
    ELSE LET e == Match(re, s, p) IN
         IF e > p THEN <<<<p, e - 1>>>> \o Spans(re, s, e)
         ELSE Spans(re, s, p + 1)

RECURSIVE Rebuild(_, _, _, _)
Rebuild(s, spans, reps, p) ==
    IF spans = <<>> THEN SubSeq(s, p, Len(s))
    ELSE SubSeq(s, p, spans[1][1] - 1) \o reps[1]
         \o Rebuild(s, Tail(spans), Tail(reps), spans[1][2] + 1)

\* the texts re.sub(re, ..., s) replaces
Matches(re, s) ==
    LET spans == Spans(re, s, 1) IN
    {SubSeq(s, spans[j][1], spans[j][2]) : j \in 1..Len(spans)}

\* re.sub(re, repl, s), repl giving the replacement of each matched text
Sub(re, repl, s) ==
    LET spans == Spans(re, s, 1) IN
    Rebuild(s, spans,
            [j \in 1..Len(spans) |-> repl[SubSeq(s, spans[j][1], spans[j][2])]], 1)

\* s.replace(old, new)
RECURSIVE Replace(_, _, _)
Replace(s, old, new) ==
    IF Len(s) < Len(old) THEN s
    ELSE IF SubSeq(s, 1, Len(old)) = old
         THEN new \o Replace(SubSeq(s, Len(old) + 1, Len(s)), old, new)
    ELSE <<Head(s)>> \o Replace(Tail(s), old, new)

\* s.lstrip(), s.rstrip(), s.strip()
RECURSIVE LStrip(_)
LStrip(s) == IF s # <<>> /\ Head(s) \in Whitespace THEN LStrip(Tail(s)) ELSE s

RECURSIVE RStrip(_)
RStrip(s) ==
    IF s # <<>> /\ s[Len(s)] \in Whitespace THEN RStrip(SubSeq(s, 1, Len(s) - 1))
    ELSE s

Strip(s) == RStrip(LStrip(s))

\* s.split('\n')
RECURSIVE Split(_)
Split(s) ==
    IF \A i \in 1..Len(s) : s[i] # NL THEN <<s>>
    ELSE LET i == CHOOSE j \in 1..Len(s) : s[j] = NL /\ \A k \in 1..(j - 1) : s[k] # NL
         IN <<SubSeq(s, 1, i - 1)>> \o Split(SubSeq(s, i + 1, Len(s)))

\* '\n'.join(lines)
RECURSIVE Join(_)
Join(lines) ==
    IF lines = <<>> THEN <<>>
    ELSE IF Len(lines) = 1 THEN lines[1]
    ELSE lines[1] \o <<NL>> \o Join(Tail(lines))

(***************************************************************************)
(* clean_markdown                                                          *)
(***************************************************************************)
MaxCleanLines == 4     \* most lines of a clean_markdown argument

NoneArg == [isNone |-> TRUE, s |-> <<>>]
Str(s) == [isNone |-> FALSE, s |-> s]
NotDone == [done |-> FALSE, s |-> <<>>]
Done(s) == [done |-> TRUE, s |-> s]

\* re.sub(r'\n{3,}', '\n\n', markdown)
CollapseNewlines(s) ==
    LET re == <<Rep({NL}, 3, -1, FALSE)>> IN
    Sub(re, [m \in Matches(re, s) |-> <<NL, NL>>], s)

\* re.sub(r'[ \t]+\n', '\n', markdown)
StripTrailing(s) ==
    LET re == <<Plus({SP, TAB}), One({NL})>> IN
    Sub(re, [m \in Matches(re, s) |-> <<NL>>], s)

\* re.sub(r'(\n#{1,6}.*?)\n([^\n])', r'\1\n\n\2', markdown)
SpaceAfterHeaders(s) ==
    LET re == <<One({NL}), Rep({"#"}, 1, 6, FALSE), Rep(NotNL, 0, -1, TRUE),
                One({NL}), One(NotNL)>>
    IN Sub(re, [m \in Matches(re, s) |->
                   SubSeq(m, 1, Len(m) - 2) \o <<NL, NL, m[Len(m)]>>], s)

clean_markdown(markdown) ==
    IF markdown.isNone \/ markdown.s = <<>> THEN <<>>
    ELSE Strip(SpaceAfterHeaders(StripTrailing(CollapseNewlines(
             Replace(markdown.s, <<CR, NL>>, <<NL>>)))))

\* line.strip().startswith('```')
IsFence(line) == LET t == Strip(line) IN t # <<>> /\ Head(t) = FENCE

\* the fenced regions that are closed: for each, the lines between its opening
\* and its closing fence.  inCode and acc are the scanner's in_code_block and
\* code_block_content.
RECURSIVE ClosedBlocks(_, _, _)
ClosedBlocks(lines, inCode, acc) ==
    IF lines = <<>> THEN <<>>
    ELSE IF IsFence(Head(lines))
         THEN IF inCode THEN <<acc>> \o ClosedBlocks(Tail(lines), FALSE, <<>>)
              ELSE ClosedBlocks(Tail(lines), TRUE, <<>>)
    ELSE ClosedBlocks(Tail(lines), inCode,
                      IF inCode THEN Append(acc, Head(lines)) ELSE acc)

\* the lines the arguments are put together from
CleanLines == {<<>>, <<SP>>, <<"a">>, <<"a", SP>>, <<"a", CR>>, <<"#", SP, "a">>,
               <<FENCE>>}
CleanInputs == {NoneArg} \cup
               {Str(Join(ls)) : ls \in SeqsUpTo(CleanLines, MaxCleanLines)}

CleanIdle == md = NoneArg /\ cleaned = NotDone /\ recleaned = NotDone

CleanInit == md \in CleanInputs /\ cleaned = NotDone /\ recleaned = NotDone

Clean ==
    /\ ~cleaned.done
    /\ cleaned' = Done(clean_markdown(md))
    /\ UNCHANGED <<md, recleaned, formatVars, processVars, textVars, linkVars, pageVars>>
    /\ UNCHANGED <<crawlVars, limiterVars, retryVars, cacheVars, mergeVars>>

\* the result is given to clean_markdown again
CleanAgain ==
    /\ cleaned.done /\ ~recleaned.done
    /\ recleaned' = Done(clean_markdown(Str(cleaned.s)))
    /\ UNCHANGED <<md, cleaned, formatVars, processVars, textVars, linkVars, pageVars>>
    /\ UNCHANGED <<crawlVars, limiterVars, retryVars, cacheVars, mergeVars>>

CleanNext == Clean \/ CleanAgain

(***************************************************************************)
(* format_code_block                                                       *)
(***************************************************************************)
MaxCodeLines == 3      \* most lines of a format_code_block argument

\* r'(import\s+\w+|from\s+\w+\s+import|def\s+\w+|class\s+\w+|async\s+def)'
PythonPatterns ==
    {<<One({"import"}), Plus(Whitespace), Plus(Word)>>,
     <<One({"from"}), Plus(Whitespace), Plus(Word), Plus(Whitespace), One({"import"})>>,
     <<One({"def"}), Plus(Whitespace), Plus(Word)>>,
     <<One({"class"}), Plus(Whitespace), Plus(Word)>>,
     <<One({"async"}), Plus(Whitespace), One({"def"})>>}

is_python(code) == \E re \in PythonPatterns : Search(re, code)

IsBlank(line) == Strip(line) = <<>>

\* while lines and not lines[0].strip(): lines.pop(0)
RECURSIVE DropBlankStart(_)
DropBlankStart(lines) ==
    IF lines # <<>> /\ IsBlank(Head(lines)) THEN DropBlankStart(Tail(lines))
    ELSE lines

\* while lines and not lines[-1].strip(): lines.pop()
RECURSIVE DropBlankEnd(_)
DropBlankEnd(lines) ==
    IF lines # <<>> /\ IsBlank(lines[Len(lines)])
    THEN DropBlankEnd(SubSeq(lines, 1, Len(lines) - 1))
    ELSE lines

\* get_indentation(line), for a line that is not blank
get_indentation(line) == Len(line) - Len(LStrip(line))

CommonIndentMax(levels) == CHOOSE n \in levels : \A k \in levels : k <= n

\* min(indentation_levels)
CommonIndent(levels) == CHOOSE n \in levels : \A k \in levels : n <= k

\* lines with the common indentation removed
Dedent(lines) ==
    LET indentation_levels ==
            {get_indentation(lines[i]) : i \in {j \in 1..Len(lines) : ~IsBlank(lines[j])}}
    IN IF indentation_levels = {} THEN lines
       ELSE LET common_indent == CommonIndent(indentation_levels)
            IN [i \in 1..Len(lines) |->
                   IF IsBlank(lines[i]) THEN <<>>
                   ELSE SubSeq(lines[i], common_indent + 1, Len(lines[i]))]

NotSemi == Alphabet \ {";"}
NotColon == Alphabet \ {":"}

\* the five patterns whose match gets a '\n' appended (r'\1\n', re.MULTILINE)
ImportPattern ==
    <<Star(Whitespace), One({"import"}), Plus(Whitespace), Rep(NotSemi, 1, -1, TRUE),
      Rep({";"}, 0, 1, FALSE), Star(Whitespace), Eol>>
FromImportPattern ==
    <<Star(Whitespace), One({"from"}), Plus(Whitespace), Rep(NotSemi, 1, -1, TRUE),
      One({"import"}), Rep(NotSemi, 1, -1, TRUE), Rep({";"}, 0, 1, FALSE),
      Star(Whitespace), Eol>>
ClassPattern ==
    <<Star(Whitespace), One({"class"}), Plus(Whitespace), Plus(NotColon), One({":"}),
      Star(Whitespace), Eol>>
DefPattern ==
    <<Star(Whitespace), One({"def"}), Plus(Whitespace), Plus(NotColon), One({":"}),
      Star(Whitespace), Eol>>
AsyncDefPattern ==
    <<Star(Whitespace), One({"async"}), Plus(Whitespace), One({"def"}), Plus(Whitespace),
      Plus(NotColon), One({":"}), Star(Whitespace), Eol>>

BreakAfter(re, code) == Sub(re, [m \in Matches(re, code) |-> m \o <<NL>>], code)

\* re.sub(r'(["\'\']).*?\1', lambda m: m.group().replace('\n', '\n    '), code,
\*        flags=re.DOTALL)
IndentStrings(code) ==
    LET re == <<One({QUOTE}), Rep(Alphabet, 0, -1, TRUE), One({QUOTE})>> IN
    Sub(re, [m \in Matches(re, code) |-> Replace(m, <<NL>>, <<NL, SP, SP, SP, SP>>)],
        code)

format_code_block(code) ==
    LET stripped == Strip(code) IN
    IF ~is_python(code) THEN stripped
    ELSE IndentStrings(
             BreakAfter(AsyncDefPattern,
             BreakAfter(DefPattern,
             BreakAfter(ClassPattern,
             BreakAfter(FromImportPattern,
             BreakAfter(ImportPattern,
                 Join(Dedent(DropBlankEnd(DropBlankStart(Split(stripped))))))))))) 

\* the lines the arguments are put together from
CodeLinesVocabulary ==
    {<<>>, <<SP, SP>>, <<"a">>, <<SP, "a">>, <<"import", SP, "a">>,
     <<"def", SP, "a", ":">>, <<SP, "def", SP, "a", ":">>, <<QUOTE, "a">>}
CodeInputs == {Join(ls) : ls \in SeqsUpTo(CodeLinesVocabulary, MaxCodeLines)}

FormatIdle == codeArg = <<>> /\ formatted = NotDone

FormatInit == codeArg \in CodeInputs /\ formatted = NotDone

Format ==
    /\ ~formatted.done
    /\ formatted' = Done(format_code_block(codeArg))
    /\ UNCHANGED <<codeArg, cleanVars, processVars, textVars, linkVars, pageVars>>
    /\ UNCHANGED <<crawlVars, limiterVars, retryVars, cacheVars, mergeVars>>

(***************************************************************************)
(* process_markdown_content                                                *)
(***************************************************************************)
MaxProcessLines == 4   \* most lines of a process_markdown_content argument

\* re.sub(r'^(\s*[-*+]\s+)', r'* ', line)
NormalizeBullets(line) ==
    LET e == Match(<<Star(Whitespace), One({"-", "*", "+"}), Plus(Whitespace)>>, line, 1)
    IN IF e = 0 THEN line ELSE <<"*", SP>> \o SubSeq(line, e, Len(line))

\* re.sub(r'^(\s*\d+\.\s+)', r'1. ', line)
NormalizeNumbers(line) ==
    LET e == Match(<<Star(Whitespace), Plus(Digit), One({"."}), Plus(Whitespace)>>, line, 1)
    IN IF e = 0 THEN line ELSE <<"1", ".", SP>> \o SubSeq(line, e, Len(line))

\* the three appends that emit a code block
EmitBlock(code_block_content) ==
    <<<<FENCE, PYTHON>>>> \o Split(format_code_block(Join(code_block_content)))
    \o <<<<FENCE>>>>

EmitUnclosedNever(in_code_block, code_block_content) == <<>>

\* if in_code_block and code_block_content: ...
EmitUnclosed(in_code_block, code_block_content) ==
    IF in_code_block /\ code_block_content # <<>> THEN EmitBlock(code_block_content)
    ELSE <<>>

\* the for loop over the lines and the handling of an unclosed block after it
RECURSIVE ProcessLines(_, _, _, _)
ProcessLines(lines, in_code_block, code_block_content, processed_lines) ==
    IF lines = <<>>
    THEN processed_lines \o EmitUnclosed(in_code_block, code_block_content)
    ELSE LET line == Head(lines) IN
         IF IsFence(line)
         THEN IF in_code_block
              THEN ProcessLines(Tail(lines), FALSE, <<>>,
                                processed_lines \o EmitBlock(code_block_content))
              ELSE ProcessLines(Tail(lines), TRUE, code_block_content, processed_lines)
         ELSE IF in_code_block
              THEN ProcessLines(Tail(lines), TRUE, Append(code_block_content, line),
                                processed_lines)
         ELSE ProcessLines(Tail(lines), FALSE, code_block_content,
                           Append(processed_lines, NormalizeNumbers(NormalizeBullets(line))))

process_markdown_content(markdown) ==
    IF markdown.isNone \/ markdown.s = <<>> THEN <<>>
    ELSE Join(ProcessLines(Split(markdown.s), FALSE, <<>>, <<>>))

\* the lines the arguments are put together from
ProcessLinesVocabulary ==
    {<<>>, <<FENCE>>, <<"a">>, <<SP, "a">>, <<"def", SP, "a", ":">>,
     <<"import", SP, "a">>, <<QUOTE, "a">>, <<"-", SP, "a">>, <<SP, SP, "*", SP, "a">>, <<SP, "1", "1", ".", SP, "a">>}
ProcessInputs == {Str(Join(ls)) : ls \in SeqsUpTo(ProcessLinesVocabulary, MaxProcessLines)}

ProcessIdle == pmd = NoneArg /\ processed = NotDone

ProcessInit == pmd \in ProcessInputs /\ processed = NotDone

Process ==
    /\ ~processed.done
    /\ processed' = Done(process_markdown_content(pmd))
    /\ UNCHANGED <<pmd, cleanVars, formatVars, textVars, linkVars, pageVars>>
    /\ UNCHANGED <<crawlVars, limiterVars, retryVars, cacheVars, mergeVars>>

(***************************************************************************)
(* modules/utils.py: clean_text                                            *)
(***************************************************************************)
MaxTextLen == 4        \* most characters of a clean_text argument

AHAT == "AHAT"      \* a with circumflex, the first character of the mojibake
EURO == "EURO"      \* the euro sign, the second character of the mojibake
TM == "TM"          \* the trade mark sign
OE == "OE"          \* the ligature oe
CENT == "CENT"      \* the cent sign
APOS == "APOS"      \* an apostrophe
BULLET == "BULLET"  \* the bullet
TextAlphabet == {"[", "]", "(", ")", "-", "=", "*", "a", SP, TAB, NL,
                 AHAT, EURO, TM, OE, CENT, APOS, QUOTE, BULLET}

\* re.sub(r'\[([^\]]+)\]\([^\)]+\)', r'\1', text)
StripLinks(text) ==
    LET re == <<One({"["}), Plus(TextAlphabet \ {"]"}), One({"]"}), One({"("}),
                Plus(TextAlphabet \ {")"}), One({")"})>>
    IN Sub(re, [m \in Matches(re, text) |->
                   SubSeq(m, 2, (CHOOSE k \in 1..Len(m) :
                                     m[k] = "]" /\ \A j \in 1..(k - 1) : m[j] # "]") - 1)],
           text)

\* re.sub(r'[=\-\*...]+', '', text), the glyphs being the bullet and three circles
RemoveDecorative(text) ==
    LET re == <<Plus({"=", "-", "*", BULLET})>> IN
    Sub(re, [m \in Matches(re, text) |-> <<>>], text)

\* re.sub(r'\s+', ' ', text)
CollapseSpaces(text) ==
    LET re == <<Plus(Whitespace)>> IN
    Sub(re, [m \in Matches(re, text) |-> <<SP>>], text)

\* the five text.replace calls, in order
FixEncoding(text) ==
    Replace(Replace(Replace(Replace(Replace(text,
        <<AHAT, EURO, TM>>, <<APOS>>),
        <<AHAT, EURO, QUOTE>>, <<"-">>),
        <<AHAT, EURO, OE>>, <<QUOTE>>),
        <<AHAT, EURO>>, <<QUOTE>>),
        <<AHAT, EURO, CENT>>, <<BULLET>>)

clean_text(text) == FixEncoding(Strip(CollapseSpaces(RemoveDecorative(StripLinks(text)))))

\* the characters the arguments are put together from
TextChars == {"[", "]", "(", ")", "-", "a", SP, AHAT, EURO, QUOTE}
TextInputs == SeqsUpTo(TextChars, MaxTextLen)

TextIdle == textArg = <<>> /\ cleanedText = NotDone /\ recleanedText = NotDone

TextInit == textArg \in TextInputs /\ cleanedText = NotDone /\ recleanedText = NotDone

CleanText ==
    /\ ~cleanedText.done
    /\ cleanedText' = Done(clean_text(textArg))
    /\ UNCHANGED <<textArg, recleanedText, cleanVars, formatVars, processVars, linkVars, pageVars>>
    /\ UNCHANGED <<crawlVars, limiterVars, retryVars, cacheVars, mergeVars>>

\* the result is given to clean_text again
CleanTextAgain ==
    /\ cleanedText.done /\ ~recleanedText.done
    /\ recleanedText' = Done(clean_text(cleanedText.s))
    /\ UNCHANGED <<textArg, cleanedText, cleanVars, formatVars, processVars, linkVars, pageVars>>
    /\ UNCHANGED <<crawlVars, limiterVars, retryVars, cacheVars, mergeVars>>

TextNext == CleanText \/ CleanTextAgain

(***************************************************************************)
(* extract_page_links.  html_content is taken as the href values of its    *)
(* <a href> elements in document order; a URL is a str whose scheme prefix  *)
(* and host are one symbol each.                                           *)
(***************************************************************************)
MaxHrefs == 3          \* most <a href> elements of a page

HTTP == "http://"
HostsWithDocs == {"docs"}      \* the hosts that have "docs" in their name

\* the characters of a URL by rising code point, a symbol of more than one
\* character standing at the place of its first
SymbolOrder == <<"#", "/", "a", "b", "docs", "f", HTTP, "site", "x">>
Rank(c) == CHOOSE i \in 1..Len(SymbolOrder) : SymbolOrder[i] = c

\* s < t for two str
RECURSIVE LexLess(_, _)
LexLess(s, t) ==
    IF t = <<>> THEN FALSE
    ELSE IF s = <<>> THEN TRUE
    ELSE IF Head(s) # Head(t) THEN Rank(Head(s)) < Rank(Head(t))
    ELSE LexLess(Tail(s), Tail(t))

\* href.split('#')[0]
BeforeFragment(href) ==
    IF \A i \in 1..Len(href) : href[i] # "#" THEN href
    ELSE SubSeq(href, 1, (CHOOSE i \in 1..Len(href) :
                              href[i] = "#" /\ \A j \in 1..(i - 1) : href[j] # "#") - 1)

\* s.rstrip('/')
RECURSIVE RStripSlashes(_)
RStripSlashes(s) ==
    IF s # <<>> /\ s[Len(s)] = "/" THEN RStripSlashes(SubSeq(s, 1, Len(s) - 1)) ELSE s

\* the path of base up to its last '/', '/' for an empty path
RECURSIVE DirOf(_)
DirOf(path) ==
    IF path = <<>> THEN <<"/">>
    ELSE IF path[Len(path)] = "/" THEN path
    ELSE DirOf(SubSeq(path, 1, Len(path) - 1))

\* urllib.parse.urljoin(base, url) for an http base and a url that is empty,
\* a fragment, a network path, an absolute path or a relative path
urljoin(base, url) ==
    LET origin == SubSeq(base, 1, 2)
        path == SubSeq(BeforeFragment(base), 3, Len(BeforeFragment(base)))
    IN IF url = <<>> THEN base
       ELSE IF Head(url) = "#"
            THEN BeforeFragment(base) \o (IF Len(url) = 1 THEN <<>> ELSE url)
       ELSE IF Len(url) >= 2 /\ url[1] = "/" /\ url[2] = "/"
            THEN <<HTTP>> \o SubSeq(url, 3, Len(url))
       ELSE IF Head(url) = "/" THEN origin \o url
       ELSE origin \o DirOf(path) \o url

\* urlparse(url).netloc
netloc(url) ==
    IF Len(url) >= 2 /\ url[1] = HTTP /\ url[2] \notin {"/", "#"} THEN url[2] ELSE ""

\* if not href.startswith(('http://', 'https://')): href = urljoin(base_url, href)
Resolve(base_url, href) ==
    IF href # <<>> /\ Head(href) = HTTP THEN href ELSE urljoin(base_url, href)

KeepEveryHost(base_domain, host) == TRUE

\* parsed.netloc == base_domain or "docs" in parsed.netloc
KeepHost(base_domain, host) == host = base_domain \/ host \in HostsWithDocs

\* href.split('#')[0].rstrip('/')
Normalize(href) == RStripSlashes(BeforeFragment(href))

\* the for loop: the set links after it
RECURSIVE CollectLinks(_, _, _)
CollectLinks(hrefs_left, base_url, found) ==
    IF hrefs_left = <<>> THEN found
    ELSE LET href == Resolve(base_url, Head(hrefs_left)) IN
         CollectLinks(Tail(hrefs_left), base_url,
                      IF KeepHost(netloc(base_url), netloc(href))
                      THEN found \cup {Normalize(href)} ELSE found)

\* the orders in which iterating over a set can give its elements
IterationOrders(S) ==
    {f \in [1..Cardinality(S) -> S] : \A x \in S : \E i \in 1..Cardinality(S) : f[i] = x}

\* list.insert keeping the list ascending
RECURSIVE Insert(_, _)
Insert(sortedSeq, x) ==
    IF sortedSeq = <<>> THEN <<x>>
    ELSE IF LexLess(x, Head(sortedSeq)) THEN <<x>> \o sortedSeq
    ELSE <<Head(sortedSeq)>> \o Insert(Tail(sortedSeq), x)

RECURSIVE SortAll(_)
SortAll(items) ==
    IF items = <<>> THEN <<>>
    ELSE Insert(SortAll(SubSeq(items, 1, Len(items) - 1)), items[Len(items)])

sortedAsIterated(items) == items

\* sorted(iterable)
sorted(items) == SortAll(items)

\* the href values and base URLs the arguments are put together from
HrefVocabulary ==
    {<<HTTP, "site", "/", "a">>, <<HTTP, "site", "/", "a", "/">>,
     <<HTTP, "site", "/", "a", "#", "f">>, <<HTTP, "docs", "/", "a">>,
     <<HTTP, "x", "/", "a">>, <<"/", "b">>, <<"b", "/">>, <<"#", "f">>, <<>>}
BaseUrls == {<<HTTP, "site", "/", "a">>, <<HTTP, "site", "/", "a", "/">>}

LinksIdle ==
    /\ hrefs = <<>> /\ baseUrl = <<HTTP, "site">>
    /\ links = NotDone /\ linksAgain = NotDone

LinksInit ==
    /\ hrefs \in SeqsUpTo(HrefVocabulary, MaxHrefs)
    /\ baseUrl \in BaseUrls
    /\ links = NotDone /\ linksAgain = NotDone

ExtractPageLinks ==
    /\ ~links.done
    /\ \E order \in IterationOrders(CollectLinks(hrefs, baseUrl, {})) :
           links' = Done(sorted(order))
    /\ UNCHANGED <<hrefs, baseUrl, linksAgain, cleanVars, formatVars, processVars, textVars, pageVars>>
    /\ UNCHANGED <<crawlVars, limiterVars, retryVars, cacheVars, mergeVars>>

\* a second call with the same arguments
ExtractPageLinksAgain ==
    /\ links.done /\ ~linksAgain.done
    /\ \E order \in IterationOrders(CollectLinks(hrefs, baseUrl, {})) :
           linksAgain' = Done(sorted(order))
    /\ UNCHANGED <<hrefs, baseUrl, links, cleanVars, formatVars, processVars, textVars, pageVars>>
    /\ UNCHANGED <<crawlVars, limiterVars, retryVars, cacheVars, mergeVars>>

LinksNext == ExtractPageLinks \/ ExtractPageLinksAgain

(***************************************************************************)
(* process_markdown                                                        *)
(***************************************************************************)
\* a CrawlResult as process_markdown reads it
CrawlResult(success, markdown) == [success |-> success, markdown |-> markdown]

Pending == [kind |-> "pending", exc |-> "", msg |-> "", s |-> <<>>]
Raised(exc, msg) == [kind |-> "raised", exc |-> exc, msg |-> msg, s |-> <<>>]
Returned(s) == [kind |-> "returned", exc |-> "", msg |-> "", s |-> s]

process_markdownMarkdownFirst(res) ==
    IF res = None
    THEN Raised("ProcessingError", "Invalid or failed crawl result")
    ELSE LET r == res[1] IN
         IF r.markdown.isNone \/ r.markdown.s = <<>>
         THEN Raised("ProcessingError", "No markdown content in result")
         ELSE IF ~r.success THEN Raised("ProcessingError", "Failed crawl result")
         ELSE Returned(process_markdown_content(Str(clean_markdown(r.markdown))))

process_markdown(res) ==
    IF res = None
    THEN Raised("ProcessingError", "Invalid or failed crawl result")
    ELSE LET r == res[1] IN
         IF ~r.success THEN Raised("ProcessingError", "Failed crawl result")
         ELSE IF r.markdown.isNone \/ r.markdown.s = <<>>
         THEN Raised("ProcessingError", "No markdown content in result")
         ELSE Returned(process_markdown_content(Str(clean_markdown(r.markdown))))

\* None and the results with any success flag and any markdown
ResultInputs ==
    {None} \cup {Some(CrawlResult(b, m)) : b \in BOOLEAN, m \in CleanInputs}

ResultIdle == mresult = None /\ mout = Pending

ResultInit == mresult \in ResultInputs /\ mout = Pending

ProcessMarkdown ==
    /\ mout = Pending
    /\ mout' = process_markdown(mresult)
    /\ UNCHANGED <<mresult, saveVars, progressVars>>
    /\ UNCHANGED <<orchestrationVars, textFnVars>>

(***************************************************************************)
(* sanitize_filename and save_to_knowledge_base.  The segments of a URL's  *)
(* path are made of symbols of one character each, so that Len is len().   *)
(***************************************************************************)
MaxSaves == 2          \* save_to_knowledge_base calls in one run

MaxPartLen == 50       \* if len(part) > 50
KeptPartLen == 47      \* part[:47]

\* s.split(sep)
RECURSIVE SplitOn(_, _)
SplitOn(s, sep) ==
    IF \A i \in 1..Len(s) : s[i] # sep THEN <<s>>
    ELSE LET i == CHOOSE j \in 1..Len(s) : s[j] = sep /\ \A k \in 1..(j - 1) : s[k] # sep
         IN <<SubSeq(s, 1, i - 1)>> \o SplitOn(SubSeq(s, i + 1, Len(s)), sep)

\* sep.join(parts)
RECURSIVE JoinWith(_, _)
JoinWith(parts, sep) ==
    IF parts = <<>> THEN <<>>
    ELSE IF Len(parts) = 1 THEN parts[1]
    ELSE parts[1] \o <<sep>> \o JoinWith(Tail(parts), sep)

\* urlparse(url).path of an http URL: what follows the host, up to '?' or '#'
UrlPath(url) == SplitOn(SplitOn(SubSeq(url, 3, Len(url)), "#")[1], "?")[1]

\* s.strip('/')
RECURSIVE LStripSlashes(_)
LStripSlashes(s) == IF s # <<>> /\ Head(s) = "/" THEN LStripSlashes(Tail(s)) ELSE s

\* the characters of r'[<>:"/\\|?*]'
UnsafeChars == {"<", ">", ":", QUOTE, "/", "\\", "|", "?", "*"}

\* the body of `for part in path_parts`
CleanPart(part) ==
    LET named == SplitOn(part, "?")[1]
        safe == [i \in 1..Len(named) |-> IF named[i] \in UnsafeChars THEN "_" ELSE named[i]]
    IN IF Len(safe) > MaxPartLen THEN SubSeq(safe, 1, KeptPartLen) \o <<".", ".", ".">>
       ELSE safe

sanitize_filename(url) ==
    LET domain == IF netloc(url) = "" THEN <<>> ELSE <<netloc(url)>>
        split_parts == SplitOn(RStripSlashes(LStripSlashes(UrlPath(url))), "/")
        path_parts == IF split_parts[1] = <<>> THEN <<<<"index">>>> ELSE split_parts
    IN domain \o <<"_">>
       \o JoinWith([i \in 1..Len(path_parts) |-> CleanPart(path_parts[i])], "_")

\* a path segment of 51 characters that ends in c
LongPart(c) == [i \in 1..MaxPartLen |-> "w"] \o <<c>>

\* the URLs of the pages that are saved
PageUrls ==
    {<<HTTP, "site", "/", "a", "/", "b">>, <<HTTP, "site", "/", "a", "_", "b">>,
     <<HTTP, "site", "/", "a">>, <<HTTP, "site", "/", "a", "?", "b">>,
     <<HTTP, "site", "/">> \o LongPart("a"), <<HTTP, "site", "/">> \o LongPart("b")}

\* a CrawlResult as save_to_knowledge_base reads it
SavedResult(success, url, markdown) ==
    [success |-> success, url |-> url, markdown |-> markdown]

SaveResults ==
    {None} \cup {Some(SavedResult(b, u, m)) :
                     b \in BOOLEAN, u \in PageUrls, m \in {NoneArg, Str(<<"a">>)}}

\* format: SummaryFormat.STANDARD or another member
Formats == {"STANDARD", "CONDENSED"}

\* the step at which the file system refuses (OSError), if it does
Faults == {"none", "makedirs", "open_md", "write_md", "open_json", "dump_json"}

\* a file written by call number n for the page at url
File(url, content, n) == [owner |-> url, content |-> content, call |-> n]

MdName(base_name) == base_name \o <<".md">>
JsonName(base_name) == base_name \o <<".json">>

\* except Exception as e: raise StorageError(f"Failed to save content: {str(e)}", ...)
WrapError(e) == Raised("StorageError", e)

\* save_to_knowledge_base(result, kb_root, format) on the directory `files`, as
\* call number n: [out, files]
save_to_knowledge_base(res, format, fault, files, n) ==
    IF res = None \/ ~res[1].success
    THEN [out |-> WrapError("Invalid or failed crawl result"), files |-> files]
    ELSE IF fault = "makedirs" THEN [out |-> WrapError("OSError"), files |-> files]
    ELSE LET r == res[1]
             base_name == sanitize_filename(r.url)
             opened == (MdName(base_name) :> File(r.url, <<>>, n)) @@ files
             md_written == (MdName(base_name) :> File(r.url, r.markdown.s, n)) @@ files
             json_opened == (JsonName(base_name) :> File(r.url, <<>>, n)) @@ md_written
             json_written == (JsonName(base_name) :> File(r.url, <<"metadata">>, n))
                             @@ md_written
         IN IF fault = "open_md" THEN [out |-> WrapError("OSError"), files |-> files]
            ELSE IF r.markdown.isNone THEN [out |-> WrapError("TypeError"), files |-> opened]
            ELSE IF fault = "write_md" THEN [out |-> WrapError("OSError"), files |-> opened]
            ELSE IF format # "STANDARD"
                 THEN [out |-> Returned(MdName(base_name)), files |-> md_written]
            ELSE IF fault = "open_json"
                 THEN [out |-> WrapError("OSError"), files |-> md_written]
            ELSE IF fault = "dump_json"
                 THEN [out |-> WrapError("OSError"), files |-> json_opened]
            ELSE [out |-> Returned(MdName(base_name)), files |-> json_written]

SaveIdle ==
    /\ kb = <<>> /\ kbPre = <<>> /\ saveArg = <<>> /\ saveOut = Pending /\ nsaves = 0

SaveInit ==
    /\ kb = <<>> /\ kbPre = <<>> /\ saveArg = <<>> /\ saveOut = Pending /\ nsaves = 0

Save ==
    /\ nsaves < MaxSaves
    /\ \E res \in SaveResults, format \in Formats, fault \in Faults :
           LET call == save_to_knowledge_base(res, format, fault, kb, nsaves + 1) IN
           /\ kb' = call.files
           /\ saveOut' = call.out
           /\ saveArg' = [result |-> res, format |-> format, fault |-> fault]
    /\ kbPre' = kb
    /\ nsaves' = nsaves + 1
    /\ UNCHANGED <<resultVars, progressVars>>
    /\ UNCHANGED <<orchestrationVars, textFnVars>>

(***************************************************************************)
(* CrawlProgress                                                           *)
(***************************************************************************)
MaxUpdates == 4        \* update() calls on one CrawlProgress

\* a check that lets one page more through
should_process_moreInclusive(limit, n) ==
    IF limit = None THEN TRUE ELSE n <= limit[1]

\* should_process_more()
should_process_more(limit, n) ==
    IF limit = None THEN TRUE ELSE n < limit[1]

\* limit_reached()
limit_reached(limit, n) ==
    IF limit = None THEN FALSE ELSE n >= limit[1]

\* the last query, what it returned and the counter it was asked at
Query(op, b, at) == [op |-> op, b |-> b, at |-> at]
NoQuery == Query("none", FALSE, 0)

ProgressIdle == cpLimit = None /\ pages_processed = 0 /\ updates = 0 /\ cpOut = NoQuery

\* CrawlProgress(page_limit)
ProgressInit ==
    /\ cpLimit \in {None} \cup {Some(n) : n \in 0..MaxLimit}
    /\ pages_processed = 0
    /\ updates = 0
    /\ cpOut = NoQuery

\* progress.update()
Update ==
    /\ updates < MaxUpdates
    /\ pages_processed' = pages_processed + 1
    /\ updates' = updates + 1
    /\ UNCHANGED <<cpLimit, cpOut, resultVars, saveVars>>
    /\ UNCHANGED <<orchestrationVars, textFnVars>>

\* progress.should_process_more()
ShouldProcessMore ==
    /\ cpOut' = Query("should_process_more",
                      should_process_more(cpLimit, pages_processed), pages_processed)
    /\ UNCHANGED <<cpLimit, pages_processed, updates, resultVars, saveVars>>
    /\ UNCHANGED <<orchestrationVars, textFnVars>>

\* progress.limit_reached()
LimitReached ==
    /\ cpOut' = Query("limit_reached",
                      limit_reached(cpLimit, pages_processed), pages_processed)
    /\ UNCHANGED <<cpLimit, pages_processed, updates, resultVars, saveVars>>
    /\ UNCHANGED <<orchestrationVars, textFnVars>>

ProgressNext == Update \/ ShouldProcessMore \/ LimitReached

PageIdle == ResultIdle /\ SaveIdle /\ ProgressIdle

PureIdle == CleanIdle /\ FormatIdle /\ ProcessIdle /\ TextIdle /\ LinksIdle /\ PageIdle

OrchestrationIdle == CrawlIdle /\ LimiterIdle /\ RetryIdle /\ CacheIdle /\ MergeIdle

(***************************************************************************)
(* Specifications                                                          *)
(***************************************************************************)
Init == CrawlInit /\ LimiterIdle /\ RetryIdle /\ CacheIdle /\ MergeIdle
    /\ PureIdle

Next == CrawlNext

\* crawl_docs on any list of URLs
Spec == Init /\ [][Next]_vars

InitLimiter == CrawlIdle /\ LimiterInit({1}) /\ RetryIdle /\ CacheIdle /\ MergeIdle
    /\ PureIdle

\* one caller of RateLimiter.wait()
SpecLimiter == InitLimiter /\ [][LimiterNext]_vars

InitSharedLimiter == CrawlIdle /\ LimiterInit({1, 2}) /\ RetryIdle /\ CacheIdle
    /\ MergeIdle /\ PureIdle

\* two tasks of one event loop that call wait() of the same RateLimiter
SpecSharedLimiter == InitSharedLimiter /\ [][LimiterNext]_vars

InitRetry == CrawlIdle /\ LimiterIdle /\ RetryInit /\ CacheIdle /\ MergeIdle
    /\ PureIdle

\* safe_crawl on one URL
SpecRetry == InitRetry /\ [][RetryNext]_vars

InitCache == CrawlIdle /\ LimiterIdle /\ RetryIdle /\ CacheInit /\ MergeIdle
    /\ PureIdle

\* calls on one URLCache built over any cache file
SpecCache == InitCache /\ [][CacheNext]_vars

InitMerge == CrawlIdle /\ LimiterIdle /\ RetryIdle /\ CacheIdle /\ MergeInit
    /\ PureIdle

\* two well-formed cache files merged in both orders
SpecMerge == InitMerge /\ [][MergeNext]_vars

InitClean == OrchestrationIdle /\ CleanInit /\ FormatIdle /\ ProcessIdle /\ TextIdle
    /\ LinksIdle /\ PageIdle

\* clean_markdown on any argument, and again on its result
SpecClean == InitClean /\ [][CleanNext]_vars

InitFormat == OrchestrationIdle /\ CleanIdle /\ FormatInit /\ ProcessIdle /\ TextIdle
    /\ LinksIdle /\ PageIdle

\* format_code_block on any argument
SpecFormat == InitFormat /\ [][Format]_vars

InitProcess == OrchestrationIdle /\ CleanIdle /\ FormatIdle /\ ProcessInit /\ TextIdle
    /\ LinksIdle /\ PageIdle

\* process_markdown_content on any argument
SpecProcess == InitProcess /\ [][Process]_vars

InitText == OrchestrationIdle /\ CleanIdle /\ FormatIdle /\ ProcessIdle /\ TextInit
    /\ LinksIdle /\ PageIdle

\* clean_text on any argument, and again on its result
SpecText == InitText /\ [][TextNext]_vars

InitLinks == OrchestrationIdle /\ CleanIdle /\ FormatIdle /\ ProcessIdle /\ TextIdle
    /\ LinksInit /\ PageIdle

\* extract_page_links on any page and base URL, called twice
SpecLinks == InitLinks /\ [][LinksNext]_vars

TextFnIdle == CleanIdle /\ FormatIdle /\ ProcessIdle /\ TextIdle /\ LinksIdle

InitResult == OrchestrationIdle /\ TextFnIdle /\ ResultInit /\ SaveIdle /\ ProgressIdle

\* process_markdown on any result
SpecResult == InitResult /\ [][ProcessMarkdown]_vars

InitProgress == OrchestrationIdle /\ TextFnIdle /\ ResultIdle /\ SaveIdle /\ ProgressInit

\* one CrawlProgress, updated and queried in any order
SpecProgress == InitProgress /\ [][ProgressNext]_vars

InitSave == OrchestrationIdle /\ TextFnIdle /\ ResultIdle /\ SaveInit /\ ProgressIdle

\* save_to_knowledge_base called on any results, one call after the other
SpecSave == InitSave /\ [][Save]_vars

(***************************************************************************)
(* The crawl loop                                                          *)
(***************************************************************************)
\* C1: within one run of crawl_docs no URL is fetched more than once.
C1_FetchedAtMostOnce ==
    \A j, k \in 1..Len(fetchLog) : j # k => fetchLog[j].url # fetchLog[k].url

\* C2: when page_limit is set, the number of pages fetched in a run never
\* exceeds it (and is zero for page_limit = 0).
C2_PageLimitHonoured ==
    page_limit # None => Len(fetchLog) <= page_limit[1]

\* C3: a failure on one URL (an unsuccessful result, an exception while fetching
\* or saving) never aborts the run: the URLs are attempted in the order of the
\* list, the loop can always go on, and crawl_docs ends normally with every URL
\* of the list attempted.
C3_FailureDoesNotAbort ==
    /\ Len(fetchLog) <= Len(urls)
    /\ \A k \in 1..Len(fetchLog) : fetchLog[k].url = urls[k]
    /\ pc = "raised" => fetchLog = <<>>
    /\ pc \in {"loop", "save"} => ENABLED (CrawlPage \/ SavePage \/ Finish)
    /\ pc = "done" => Len(fetchLog) = Len(urls)

\* a run that ended normally after a fetch that raised, a save that raised and
\* a fetch that gave an unsuccessful result, the first two followed by a later
\* attempt
C3_Witness ==
    /\ pc = "done"
    /\ Len(fetchLog) = 3
    /\ fetchLog[1].o = "exception"
    /\ fetchLog[2].o = "success" /\ outcomes[2] = "StorageError"
    /\ fetchLog[3].o = "unsuccessful"

\* C5: no two fetches of a run start less than delay_seconds apart (every fetch
\* follows a completed RateLimiter.wait()).
C5_FetchesSpaced ==
    \A k \in 2..Len(fetchLog) : fetchLog[k].t - fetchLog[k - 1].t >= DefaultDelay

\* C7: a StorageError raised while saving a page is surfaced to the caller of
\* crawl_docs: a run in which one was raised ends by raising, not normally.
C7_StorageErrorSurfaced ==
    (\E k \in 1..Len(outcomes) : outcomes[k] = "StorageError") => pc = "raised"

(***************************************************************************)
(* RateLimiter, one caller                                                 *)
(***************************************************************************)
\* C4: with one caller, two consecutive wait() calls return at least delay
\* apart, N calls take at least (N-1)*delay from the first call to the last
\* return, and the first call on a fresh limiter does not sleep.
C4_WaitsSpaced ==
    /\ \A k \in 2..Len(returns) : returns[k].t - returns[k - 1].t >= delay
    /\ Len(returns) >= 1 =>
         returns[Len(returns)].t - firstCall[1] >= (Len(returns) - 1) * delay
    /\ Len(returns) = 0 => \A t \in tasks : wpc[t] = "idle"
    /\ Len(returns) >= 1 => ~returns[1].slept

\* three calls returned with a positive delay, the later ones after sleeping
C4_Witness ==
    /\ delay > 0
    /\ Len(returns) >= 3
    /\ returns[2].slept /\ returns[3].slept

(***************************************************************************)
(* safe_crawl                                                              *)
(***************************************************************************)
\* C6: safe_crawl makes at most 3 attempts; it returns the result of the first
\* successful attempt without attempting again, and returns no result exactly
\* after 3 unsuccessful attempts.
C6_AtMostThreeAttempts ==
    /\ Len(attemptLog) <= 3
    /\ \A k \in 1..Len(attemptLog) - 1 : attemptLog[k] # "success"
    /\ rpc # "returned" => ret = "pending"
    /\ rpc = "returned" =>
         /\ ret \in {"result", "None"}
         /\ ret = "result" <=> attemptLog[Len(attemptLog)] = "success"
         /\ ret = "None" <=>
              /\ Len(attemptLog) = 3
              /\ \A k \in 1..3 : attemptLog[k] # "success"

\* three attempts failed, by exception and by an unsuccessful result, and
\* safe_crawl returned None
C6_Witness ==
    /\ rpc = "returned"
    /\ ret = "None"
    /\ \E j, k \in 1..Len(attemptLog) :
         attemptLog[j] = "exception" /\ attemptLog[k] = "unsuccessful"

(***************************************************************************)
(* URLCache                                                                *)
(***************************************************************************)
\* the count a cache or a file holds for a URL, 0 for a URL it does not hold
CountIn(c, u) == IF c.map[u].kind = "entry" THEN c.map[u].count ELSE 0

\* C8: merging B into A and merging A into B both give a cache whose keys are
\* the union of the keys of A and B and whose count for every URL is the sum of
\* its counts in A and B, so total_visits is the same in both orders.
C8_MergeSumsCounts ==
    /\ cacheAB # Unset =>
         /\ Keys(cacheAB.map) = Keys(fileA.map) \cup Keys(fileB.map)
         /\ \A u \in Urls : CountIn(cacheAB, u) = CountIn(fileA, u) + CountIn(fileB, u)
    /\ cacheBA # Unset =>
         /\ Keys(cacheBA.map) = Keys(fileA.map) \cup Keys(fileB.map)
         /\ \A u \in Urls : CountIn(cacheBA, u) = CountIn(fileA, u) + CountIn(fileB, u)
    /\ (cacheAB # Unset /\ cacheBA # Unset) =>
         get_stats(cacheAB).visits = get_stats(cacheBA).visits

\* both merges are done, one URL is on both sides and another on one side only,
\* and the two results differ (in their timestamps)
C8_Witness ==
    /\ cacheAB # Unset /\ cacheBA # Unset
    /\ Keys(fileA.map) \cap Keys(fileB.map) # {}
    /\ Keys(fileA.map) # Keys(fileB.map)
    /\ cacheAB # cacheBA

\* C9 as stated: on a cache that started empty or well-formed and merged only
\* well-formed files, every URL present has a count >= 1, and each add_url(u)
\* raises the count of u by exactly 1.
C9_AddUrlAlwaysCounts ==
    /\ wellFormed =>
         /\ cache.kind = "dict"
         /\ \A u \in Keys(cache.map) : cache.map[u].kind = "entry" /\ cache.map[u].count >= 1
    /\ (wellFormed /\ lastOp.name = "add_url") =>
         /\ raised = "none"
         /\ CountIn(cache, lastOp.url) = CountIn(pre, lastOp.url) + 1

\* C9, amended: every URL present has a count >= 1; on an enabled cache each
\* add_url(u) raises the count of u by exactly 1, on a disabled cache add_url
\* leaves the cache as it is.
C9_AddUrlCountsWhenEnabled ==
    /\ wellFormed =>
         /\ cache.kind = "dict"
         /\ \A u \in Keys(cache.map) : cache.map[u].kind = "entry" /\ cache.map[u].count >= 1
    /\ (wellFormed /\ lastOp.name = "add_url") =>
         /\ raised = "none"
         /\ enabled => /\ CountIn(cache, lastOp.url) = CountIn(pre, lastOp.url) + 1
                       /\ \A u \in Urls \ {lastOp.url} : cache.map[u] = pre.map[u]
         /\ ~enabled => cache = pre

\* add_url on an enabled cache for a URL whose count an earlier call had
\* already changed
C9_Witness ==
    /\ enabled /\ wellFormed
    /\ lastOp.name = "add_url"
    /\ CountIn(pre, lastOp.url) > CountIn(file0, lastOp.url)
    /\ CountIn(cache, lastOp.url) >= 3

\* a cache file whose JSON value is no mapping
NotAMapping(f) == f.kind \in {"array", "number"}

\* C10: over a cache file that is missing, unparseable, truncated or no
\* mapping, the cache starts with no URL in it and no later has_url, add_url or
\* get_stats call fails.
C10_MalformedFileGivesEmptyCache ==
    (file0.kind \in {"missing", "garbage", "truncated"} \/ NotAMapping(file0)) =>
        /\ nops = 0 => Keys(cache.map) = {}
        /\ lastOp.name \in {"has_url", "add_url", "get_stats"} => raised = "none"

\* C11: on an enabled cache created with no cache file, has_url(u) is false
\* before the first add_url(u) or merge of a file holding u and true after it,
\* whatever calls follow: the cache holds exactly the URLs inserted so far.
C11_CachedOnceInserted ==
    (enabled /\ file0.kind = "missing" /\ raised = "none") =>
        /\ cache.kind = "dict"
        /\ Keys(cache.map) = inserted
        /\ lastOp.name = "has_url" => (out.b <=> lastOp.url \in inserted)

\* has_url(u) answered true after an earlier call had inserted u
C11_Witness ==
    /\ enabled /\ file0.kind = "missing" /\ raised = "none"
    /\ lastOp.name = "has_url"
    /\ out.b
    /\ lastOp.url \in inserted

(***************************************************************************)
(* clean_markdown                                                          *)
(***************************************************************************)
\* C12: clean_markdown is idempotent: for every argument, the empty string and
\* None included, cleaning the result again gives the same string.
C12_CleanIdempotent == recleaned.done => recleaned.s = cleaned.s

\* C17: clean_markdown preserves fenced code blocks: the lines between an
\* opening fence and its closing fence are in the result with the same text and
\* indentation, in the same order, and no line is put between them.  Line
\* endings and whitespace at the end of a line are not counted as text.
CodeLines(s) ==
    LET blocks == ClosedBlocks(Split(Replace(s, <<CR, NL>>, <<NL>>)), FALSE, <<>>)
    IN [i \in 1..Len(blocks) |->
           [j \in 1..Len(blocks[i]) |-> RStrip(blocks[i][j])]]

C17_CodeBlocksPreserved ==
    (cleaned.done /\ ~md.isNone) => CodeLines(cleaned.s) = CodeLines(md.s)

(***************************************************************************)
(* format_code_block                                                       *)
(***************************************************************************)
\* C16: format_code_block returns a fenced block for every argument, empty and
\* whitespace-only code included: at least three lines, the first an opening
\* fence that carries the detected language or nothing, the last a closing
\* fence.
C16_ResultIsFenced ==
    formatted.done =>
        LET lines == Split(formatted.s) IN
        /\ Len(lines) >= 3
        /\ lines[1] \in {<<FENCE>>, <<FENCE, PYTHON>>}
        /\ lines[1] = <<FENCE, PYTHON>> <=> is_python(codeArg)
        /\ lines[Len(lines)] = <<FENCE>>

(***************************************************************************)
(* process_markdown_content                                                *)
(***************************************************************************)
FenceCount(s) == Cardinality({i \in 1..Len(Split(s)) : IsFence(Split(s)[i])})

Blocks(s) == ClosedBlocks(Split(s), FALSE, <<>>)

\* the whitespace-separated tokens of s
RECURSIVE Tokens(_)
Tokens(s) ==
    LET t == LStrip(s)
        n == Run(t, 1, Alphabet \ Whitespace, -1)
    IN IF t = <<>> THEN <<>>
       ELSE <<SubSeq(t, 1, n)>> \o Tokens(SubSeq(t, n + 1, Len(t)))

\* C13: for Markdown with a single fenced code block, the result has one fenced
\* block and its whitespace-separated tokens are those of the argument's
\* block, in the same order: only whitespace and fencing differ.
C13_TokensPreserved ==
    (processed.done /\ FenceCount(pmd.s) = 2) =>
        /\ FenceCount(processed.s) = 2
        /\ Len(Blocks(processed.s)) = 1
        /\ Tokens(Join(Blocks(processed.s)[1])) = Tokens(Join(Blocks(pmd.s)[1]))

\* a block of Python code of two lines or more that came out re-spaced
C13_Witness ==
    /\ processed.done /\ FenceCount(pmd.s) = 2
    /\ Len(Blocks(pmd.s)[1]) >= 2
    /\ is_python(Join(Blocks(pmd.s)[1]))
    /\ Blocks(processed.s)[1] # Blocks(pmd.s)[1]
    /\ Tokens(Join(Blocks(processed.s)[1])) = Tokens(Join(Blocks(pmd.s)[1]))

\* the argument ends inside a fenced region
EndsInFence(s) == FenceCount(s) % 2 = 1

\* the lines after the last fence line
OpenRegion(s) ==
    LET lines == Split(s)
        last == CHOOSE i \in 1..Len(lines) :
                    IsFence(lines[i]) /\ \A j \in (i + 1)..Len(lines) : ~IsFence(lines[j])
    IN SubSeq(lines, last + 1, Len(lines))

\* the result ends with the open region as a block: formatted, and closed by a
\* fence line
OpenRegionClosed ==
    LET emitted == Blocks(processed.s) IN
    /\ ~EndsInFence(processed.s)
    /\ Len(emitted) = Len(Blocks(pmd.s)) + 1
    /\ emitted[Len(emitted)] = Split(format_code_block(Join(OpenRegion(pmd.s))))
    /\ Split(processed.s)[Len(Split(processed.s))] = <<FENCE>>

\* C14 as stated: whenever the argument ends inside a fenced region, with or
\* without lines after the opening fence, the result holds that region formatted
\* and closed by a fence line.
C14_UnterminatedFenceClosed ==
    (processed.done /\ EndsInFence(pmd.s)) => OpenRegionClosed

\* C14: whenever the argument ends inside a fenced region that has at least one
\* line after its opening fence, the result holds that region formatted and
\* closed by a fence line.
C14_UnterminatedFenceWithLinesClosed ==
    (processed.done /\ EndsInFence(pmd.s) /\ OpenRegion(pmd.s) # <<>>) => OpenRegionClosed

C14_Witness ==
    /\ processed.done /\ EndsInFence(pmd.s)
    /\ Len(OpenRegion(pmd.s)) >= 2
    /\ Tokens(Join(OpenRegion(pmd.s))) # <<>>
    /\ OpenRegionClosed

LeadingSpace(line) == SubSeq(line, 1, Len(line) - Len(LStrip(line)))

IsBulletItem(line) ==
    LET t == LStrip(line) IN
    Len(t) >= 2 /\ t[1] \in {"-", "*", "+"} /\ t[2] \in Whitespace

IsNumberedItem(line) ==
    LET t == LStrip(line)
        n == Run(t, 1, Digit, -1)
    IN n >= 1 /\ Len(t) >= n + 2 /\ t[n + 1] = "." /\ t[n + 2] \in Whitespace

\* C15: outside fenced regions a bullet marker (-, *, +) becomes '*' and a
\* numbered marker becomes '1.', and the indentation of the line stays as it
\* was; stated for arguments without a fence, where every line is outside.
C15_MarkersRewrittenIndentKept ==
    (processed.done /\ ~pmd.isNone /\ pmd.s # <<>> /\ FenceCount(pmd.s) = 0) =>
        LET old == Split(pmd.s)
            new == Split(processed.s)
        IN /\ Len(new) = Len(old)
           /\ \A i \in 1..Len(old) :
                  /\ IsBulletItem(old[i]) =>
                         /\ LeadingSpace(new[i]) = LeadingSpace(old[i])
                         /\ Head(LStrip(new[i])) = "*"
                  /\ IsNumberedItem(old[i]) =>
                         /\ LeadingSpace(new[i]) = LeadingSpace(old[i])
                         /\ SubSeq(LStrip(new[i]), 1, 2) = <<"1", ".">>

(***************************************************************************)
(* modules/utils.py: clean_text                                            *)
(***************************************************************************)
\* C18: clean_text is idempotent: for every string, cleaning the result again
\* gives the same string.
C18_CleanTextIdempotent == recleanedText.done => recleanedText.s = cleanedText.s

(***************************************************************************)
(* extract_page_links                                                      *)
(***************************************************************************)
Range(f) == {f[i] : i \in DOMAIN f}

\* a URL without its fragment and without one trailing slash
Page(url) ==
    LET u == BeforeFragment(url) IN
    IF u # <<>> /\ u[Len(u)] = "/" THEN SubSeq(u, 1, Len(u) - 1) ELSE u

\* C19: extract_page_links returns a list in strictly ascending order, so
\* without duplicates; a second call with the same arguments returns the same
\* list; hrefs that differ only by fragment or trailing slash give one entry.
C19_LinksSortedUniqueStable ==
    /\ links.done =>
           /\ \A i \in 1..(Len(links.s) - 1) : LexLess(links.s[i], links.s[i + 1])
           /\ \A i \in 1..Len(hrefs) :
                  Cardinality({l \in Range(links.s) :
                                   Page(l) = Page(Resolve(baseUrl, hrefs[i]))}) <= 1
    /\ linksAgain.done => linksAgain.s = links.s

\* two calls made on a page with hrefs of one page that differ by fragment or
\* slash, and a link to another page
C19_Witness ==
    /\ links.done /\ linksAgain.done
    /\ Len(links.s) >= 2
    /\ \E i, j \in 1..Len(hrefs) :
           /\ hrefs[i] # hrefs[j]
           /\ Page(Resolve(baseUrl, hrefs[i])) = Page(Resolve(baseUrl, hrefs[j]))
           /\ \E l \in Range(links.s) : Page(l) = Page(Resolve(baseUrl, hrefs[i]))

C21_InvalidResultRaises ==
    mout # Pending =>
        IF mresult = None
        THEN mout = Raised("ProcessingError", "Invalid or failed crawl result")
        ELSE IF ~mresult[1].success
        THEN mout = Raised("ProcessingError", "Failed crawl result")
        ELSE IF mresult[1].markdown.isNone \/ mresult[1].markdown.s = <<>>
        THEN mout = Raised("ProcessingError", "No markdown content in result")
        ELSE mout.kind = "returned"

\* a failed result without markdown: the failure is what is reported
C21_Witness ==
    /\ mout.kind = "raised"
    /\ mresult # None
    /\ ~mresult[1].success
    /\ mresult[1].markdown.s = <<>>
    /\ mout.msg = "Failed crawl result"

(***************************************************************************)
(* save_to_knowledge_base                                                  *)
(***************************************************************************)
\* C22: called with a None result or a result whose success is false,
\* save_to_knowledge_base raises ProcessingError, not StorageError, and writes
\* nothing.
C22_InvalidResultRaisesProcessingError ==
    (nsaves > 0 /\ (saveArg.result = None \/ ~saveArg.result[1].success)) =>
        /\ saveOut.kind = "raised"
        /\ saveOut.exc = "ProcessingError"
        /\ kb = kbPre

\* the files of the directory that the last call wrote and whose name ends in ext
WrittenNow(ext) == {f \in DOMAIN kb : kb[f].call = nsaves /\ f[Len(f)] = ext}

\* C28: a save in standard mode is all-or-nothing: a call never leaves a
\* markdown file that it wrote without the .json sidecar of the same call.
C28_MarkdownHasSidecar ==
    (nsaves > 0 /\ saveArg.format = "STANDARD") =>
        (WrittenNow(".md") # {} <=> WrittenNow(".json") # {})

\* C29: pages with distinct URLs are saved under distinct names: a call
\* overwrites a file only if the file was written for the same URL.
C29_OverwriteOnlySamePage ==
    \A f \in DOMAIN kb \cap DOMAIN kbPre :
        kb[f].call = nsaves => kbPre[f].owner = kb[f].owner

(***************************************************************************)
(* CrawlProgress                                                           *)
(***************************************************************************)
\* C26: pages_processed grows by exactly 1 with every update() and never
\* decreases; should_process_more() is true exactly when page_limit is None or
\* pages_processed < page_limit, and limit_reached() is its negation.
C26_ProgressCounts ==
    LET more == cpLimit = None \/ cpOut.at < cpLimit[1] IN
    /\ pages_processed = updates
    /\ cpOut.at <= pages_processed
    /\ cpOut.op = "should_process_more" => cpOut.b = more
    /\ cpOut.op = "limit_reached" => cpOut.b = ~more

\* the limit is passed and should_process_more() answers no
C26_Witness ==
    /\ cpLimit # None
    /\ updates > cpLimit[1]
    /\ cpOut = Query("should_process_more", FALSE, updates)

(***************************************************************************)
(* safe_crawl: backoff between attempts                                    *)
(***************************************************************************)
\* C23: every failed attempt of safe_crawl that is followed by another attempt
\* is separated from it by a backoff sleep of 2 ** attempt seconds, whether the
\* attempt raised or returned an unsuccessful result.
C23_BackoffBetweenAttempts ==
    \A k \in 1..(Len(attemptLog) - 1) :
        \E i \in 1..Len(sleepLog) :
            sleepLog[i] = [attempt |-> k - 1, secs |-> Pow2(k - 1)]

(***************************************************************************)
(* clean_markdown: the shape of the result                                 *)
(***************************************************************************)
\* C24: the result of clean_markdown never has three or more newlines in a
\* row, and no line of it ends in a space or a tab.
C24_NoExcessNewlinesNoTrailingSpace ==
    cleaned.done =>
        LET s == cleaned.s IN
        /\ \A i \in 1..(Len(s) - 2) : ~(s[i] = NL /\ s[i + 1] = NL /\ s[i + 2] = NL)
        /\ \A i \in 1..Len(s) : s[i] \in {SP, TAB} => (i < Len(s) /\ s[i + 1] # NL)

\* a line that starts with '#'
IsAtxHeader(line) == line # <<>> /\ Head(line) = "#"

\* C25: in the result of clean_markdown, every ATX header that is followed by
\* a non-blank line is separated from it by exactly one blank line; this
\* includes a header on the first line and two headers in a row.  Arguments
\* with a code fence are left out, where '#' may start a comment.
C25_HeadersFollowedByOneBlankLine ==
    (cleaned.done /\ \A i \in 1..Len(md.s) : md.s[i] # FENCE) =>
        LET lines == Split(cleaned.s) IN
        \A i \in 1..(Len(lines) - 1) :
            IsAtxHeader(lines[i]) =>
                /\ Strip(lines[i + 1]) = <<>>
                /\ i + 2 <= Len(lines) => Strip(lines[i + 2]) # <<>>

(***************************************************************************)
(* RateLimiter shared by two tasks                                         *)
(***************************************************************************)
\* C27: when two tasks share one RateLimiter and their wait() calls interleave
\* at the sleep, the times at which any two wait() calls return are still at
\* least the delay apart.
C27_SharedWaitsSpaced ==
    \A j, k \in 1..Len(returns) :
        j < k => returns[k].t - returns[j].t >= delay

(***************************************************************************)
(* URLCache with enabled=False                                             *)
(***************************************************************************)
\* C30: a URLCache created with enabled=False is inert: add_url and merge
\* leave its in-memory mapping and the cache file as they were, has_url
\* returns false for every URL, and get_stats reports the totals of the
\* mapping loaded by the constructor.
C30_DisabledCacheInert ==
    ~enabled =>
        /\ file = file0
        /\ lastOp.name \in {"add_url", "merge"} => cache = pre
        /\ lastOp.name = "has_url" => ~out.b
        /\ (lastOp.name = "get_stats" /\ raised = "none") =>
               LET loaded == get_stats(_load_cache(file0))
               IN out.n = loaded.n /\ out.visits = loaded.visits

====
